---- MODULE Spec2Model ----
(***************************************************************************)
(* A model of app.py, the "Notes to PDF" Streamlit application: the three  *)
(* functions extract_text_from_pdf, ask_question_to_gemini and             *)
(* export_answers_to_pdf, and the script body that Streamlit re-runs from  *)
(* top to bottom after every widget interaction.                           *)
(*                                                                         *)
(* A Python str is a sequence of tokens.  A token is one character (" ",   *)
(* "a", "q", ...) or one fixed phrase of a message of the program, kept as *)
(* a unit: str.strip(), truthiness, concatenation and the substring test   *)
(* `in` are computed on these sequences.                                   *)
(***************************************************************************)
EXTENDS Integers, Sequences, FiniteSets, TLC

VARIABLES
    uploaded_file,  \* value of st.file_uploader: NoFile or a document
    question,       \* value of the st.text_input widget
    session_state,  \* st.session_state: a function from key to value
    rendered,       \* the buttons and inputs the last script run put on the page
    download,       \* data handed to st.download_button by the last run
    tmp_files,      \* names of the files that exist in the temp directory
    error,          \* the exception that ended the last script run, or "none"
    call            \* one direct call of a function: arguments and result

vars == <<uploaded_file, question, session_state, rendered, download,
          tmp_files, error, call>>

-----------------------------------------------------------------------------
(* Bounds of the model *)

MaxSaved == 2      \* records the ledger holds before Save is no longer explored
MaxTmpFiles == 1   \* temporary files that may exist at once
MaxTextLen == 2    \* characters of a document text or a response in a direct call
MaxAnswers == 2    \* records of a list handed directly to export_answers_to_pdf

-----------------------------------------------------------------------------
(* Python strings *)

Whitespace == {" ", "\n"}

\* str.strip(): drop leading and trailing whitespace
RECURSIVE LStrip(_)
LStrip(s) ==
    IF s # <<>> /\ Head(s) \in Whitespace THEN LStrip(Tail(s)) ELSE s

RECURSIVE RStrip(_)
RStrip(s) ==
    IF s # <<>> /\ s[Len(s)] \in Whitespace
    THEN RStrip(SubSeq(s, 1, Len(s) - 1))
    ELSE s

Strip(s) == RStrip(LStrip(s))

\* bool(s) of a str
Truthy(s) == s # <<>>

\* `sub in s` of two strs
Contains(s, sub) ==
    \E i \in 1..(Len(s) - Len(sub) + 1) : SubSeq(s, i, i + Len(sub) - 1) = sub

\* a value that may be None: None, or a str
PyNone == [isNone |-> TRUE, s |-> <<>>]
PyStr(s) == [isNone |-> FALSE, s |-> s]

\* bool(v) of a value that may be None
TruthyOpt(v) == ~v.isNone /\ Truthy(v.s)

\* all strs over the characters cs of length at most n
StrsUpTo(cs, n) == UNION {[1..k -> cs] : k \in 0..n}

-----------------------------------------------------------------------------
(* extract_text_from_pdf *)

\* An uploaded PDF: whether pypdf raises while reading it, and what
\* page.extract_text() gives for each page (None, or a str).
NoFile == [present |-> FALSE, corrupt |-> FALSE, pages |-> <<>>]
Pdf(corrupt, pages) == [present |-> TRUE, corrupt |-> corrupt, pages |-> pages]

RECURSIVE ConcatPages(_, _)
ConcatPages(text, pages) ==
    IF pages = <<>> THEN text
    ELSE LET page_text == Head(pages)
         IN  ConcatPages(IF TruthyOpt(page_text) THEN text \o page_text.s ELSE text,
                         Tail(pages))

extract_text_from_pdf(pdf_file) ==
    IF pdf_file.corrupt THEN <<>> ELSE ConcatPages(<<>>, pdf_file.pages)

-----------------------------------------------------------------------------
(* ask_question_to_gemini *)

EmptyPdfMsg ==
    <<"PDF content is empty or could not be extracted. Cannot ask questions.">>
EmptyAnswerMsg ==
    <<"Gemini returned an empty answer. Please try a different question or PDF content.">>
CouldNotGetAnAnswer == <<"Could not get an answer">>
FailureMsg ==
    CouldNotGetAnAnswer \o
    <<" from the AI. Please check your API key, model name, internet connection, or try again later.">>

Prompt(text, q) ==
    <<"PDF Content:\n">> \o text \o <<"\n\nQuestion: ">> \o q \o <<"\nAnswer:">>

\* What one model.generate_content(prompt) does: raise, or return a response
\* whose .text is a value (None or a str) or raises when read.
Raises == [raises |-> TRUE, textRaises |-> FALSE, text |-> PyNone]
Blocked == [raises |-> FALSE, textRaises |-> TRUE, text |-> PyNone]
Response(t) == [raises |-> FALSE, textRaises |-> FALSE, text |-> t]

\* The hosted service during one call: the outcome of the first request and
\* the outcome of any request after it.
Service(first, later) == [first |-> first, later |-> later]

\* a variant of IsBlank that tests the text without stripping it
IsBlankUnstripped(text) == ~Truthy(text)

\* text.strip() is falsy
IsBlank(text) == ~Truthy(Strip(text))

\* a variant of GenerateAnswer that sends the request again after a failure
GenerateAnswerRetrying(text, q, service) ==
    LET first == service.first
        response == IF first.raises THEN service.later ELSE first
        sent == IF first.raises THEN <<Prompt(text, q), Prompt(text, q)>>
                ELSE <<Prompt(text, q)>>
    IN  IF response.raises \/ response.textRaises
        THEN [ret |-> FailureMsg, requests |-> sent, raised |-> FALSE, errors |-> 1]
        ELSE IF TruthyOpt(response.text)
        THEN [ret |-> Strip(response.text.s), requests |-> sent,
              raised |-> FALSE, errors |-> 0]
        ELSE [ret |-> EmptyAnswerMsg, requests |-> sent, raised |-> FALSE, errors |-> 0]

\* lines 80-91: the try block around one request
GenerateAnswer(text, q, service) ==
    LET response == service.first
        sent == <<Prompt(text, q)>>
    IN  IF response.raises \/ response.textRaises
        THEN [ret |-> FailureMsg, requests |-> sent, raised |-> FALSE, errors |-> 1]
        ELSE IF TruthyOpt(response.text)
        THEN [ret |-> Strip(response.text.s), requests |-> sent,
              raised |-> FALSE, errors |-> 0]
        ELSE [ret |-> EmptyAnswerMsg, requests |-> sent, raised |-> FALSE, errors |-> 0]

\* ret: the value returned; requests: the prompts sent to the service, in
\* order; raised: an exception left the function; errors: st.error calls.
ask_question_to_gemini(text, q, service) ==
    IF IsBlank(text)
    THEN [ret |-> EmptyPdfMsg, requests |-> <<>>, raised |-> FALSE, errors |-> 0]
    ELSE GenerateAnswer(text, q, service)

-----------------------------------------------------------------------------
(* export_answers_to_pdf *)

Title == <<"Saved Q&A from Notes to PDF">>

\* a variant of DictGet that ignores the default, as qa.get(key) does:
\* str() of the None it gives is "None"
DictGetNoDefault(qa, key, default) ==
    IF key \in DOMAIN qa THEN qa[key] ELSE <<"None">>

\* qa.get(key, default) of a dict
DictGet(qa, key, default) == IF key \in DOMAIN qa THEN qa[key] ELSE default

\* a variant of BlockText that numbers the blocks from 0
BlockTextFromZero(idx, qa) ==
    LET question_str == DictGet(qa, "question", <<"N/A Question">>)
        answer_str == DictGet(qa, "answer", <<"N/A Answer">>)
    IN  <<"Q", ToString(idx), ": ">> \o question_str \o <<"\n">> \o
        <<"A", ToString(idx), ": ">> \o answer_str \o <<"\n">>

\* line 111: the text of the multi_cell of the record at 0-based index idx
BlockText(idx, qa) ==
    LET question_str == DictGet(qa, "question", <<"N/A Question">>)
        answer_str == DictGet(qa, "answer", <<"N/A Answer">>)
    IN  <<"Q", ToString(idx + 1), ": ">> \o question_str \o <<"\n">> \o
        <<"A", ToString(idx + 1), ": ">> \o answer_str \o <<"\n">>

\* lines 107-111: for idx, qa in enumerate(answers)
RECURSIVE Blocks(_, _)
Blocks(idx, answers) ==
    IF answers = <<>> THEN <<>>
    ELSE <<[op |-> "multi_cell", txt |-> BlockText(idx, Head(answers))]>>
         \o Blocks(idx + 1, Tail(answers))

\* lines 97-111: what is drawn on the FPDF object, in order
PdfBody(answers) ==
    <<[op |-> "cell", txt |-> Title], [op |-> "ln", txt |-> <<>>]>>
    \o Blocks(0, answers)

\* a name tempfile.NamedTemporaryFile gives: one no existing file has
FreshName(files) == CHOOSE n \in 1..(Cardinality(files) + 1) : n \notin files

NoPdf == <<>>

\* io says how the file system behaves: "ok", "mkstemp_fails" (the temporary
\* file cannot be created) or "output_fails" (pdf.output raises).
\* path: the name returned; files: the temp directory afterwards; pdf: what
\* was written to the file; raised: an exception left the function.
export_answers_to_pdf(answers, files, io) ==
    LET body == PdfBody(answers)
        name == FreshName(files)
    IN  CASE io = "mkstemp_fails" ->
               [path |-> 0, files |-> files, pdf |-> NoPdf, raised |-> TRUE]
          [] io = "output_fails" ->
               [path |-> 0, files |-> files \cup {name}, pdf |-> NoPdf,
                raised |-> TRUE]
          [] OTHER ->
               [path |-> name, files |-> files \cup {name}, pdf |-> body,
                raised |-> FALSE]

-----------------------------------------------------------------------------
(* The script body, lines 118-183: one run from top to bottom *)

\* st.session_state.<key> = value
SetKey(ss, key, value) ==
    [k \in DOMAIN ss \cup {key} |-> IF k = key THEN value ELSE ss[k]]

\* lines 125-126
InitSessionState(ss) ==
    IF "saved_answers" \notin DOMAIN ss THEN SetKey(ss, "saved_answers", <<>>) ELSE ss

\* lines 142-144: the Get Answer handler
GetAnswerHandler(ss, pdf_text, q, service) ==
    LET answer == ask_question_to_gemini(pdf_text, q, service).ret
    IN  SetKey(SetKey(ss, "last_answer", answer), "last_question", q)

\* line 148: the answer of the session is shown
AnswerShown(ss) == "last_answer" \in DOMAIN ss /\ Truthy(ss["last_answer"])

\* a variant of SaveOffered that offers the button for every shown answer
SaveOfferedAlways(last_answer) == TRUE

\* line 151: the Save this Answer button is offered for this answer
SaveOffered(last_answer) == ~Contains(last_answer, CouldNotGetAnAnswer)

\* a variant of SaveHandler that puts the new record first
SaveHandlerPrepending(ss) ==
    SetKey(ss, "saved_answers",
           <<[question |-> ss["last_question"], answer |-> ss["last_answer"]]>>
           \o ss["saved_answers"])

\* a variant of SaveHandler that discards the pending answer once saved
SaveHandlerDiscarding(ss) ==
    LET saved == Append(ss["saved_answers"],
                        [question |-> ss["last_question"],
                         answer |-> ss["last_answer"]])
    IN  [k \in {"saved_answers"} |-> saved]

\* lines 153-156: the Save this Answer handler
SaveHandler(ss) ==
    SetKey(ss, "saved_answers",
           Append(ss["saved_answers"],
                  [question |-> ss["last_question"], answer |-> ss["last_answer"]]))

\* a variant of ClearHandler that removes the last record only
ClearHandlerLastOnly(ss) ==
    SetKey(ss, "saved_answers",
           SubSeq(ss["saved_answers"], 1, Len(ss["saved_answers"]) - 1))

\* line 171: the Clear All Saved Answers handler
ClearHandler(ss) == SetKey(ss, "saved_answers", <<>>)

\* lines 175-183: the Export All as PDF handler.  io is the file system's
\* and Streamlit's behaviour: the three of export_answers_to_pdf, or
\* "open_fails" (line 176 raises) or "download_fails" (line 177 raises).
ExportHandler(answers, files, io) ==
    LET e == export_answers_to_pdf(answers, files, io)
    IN  IF e.raised \/ io \in {"open_fails", "download_fails"}
        THEN [files |-> e.files, download |-> NoPdf, error |-> io, shown |-> FALSE]
        ELSE [files |-> e.files \ {e.path}, download |-> e.pdf, error |-> "none",
              shown |-> TRUE]

\* One run of the script with the widget values up (file uploader) and q
\* (text input), the button clicked (or "none"), and the behaviour of the
\* service and of the file system during the run.  A button returns True
\* only in the run its click started, and only if the run reaches it.  The
\* text input keeps its value while it is drawn and starts empty again
\* after a run that did not draw it.
Script(ss_in, up, q, clicked, service, io, files) ==
    LET ss0 == InitSessionState(ss_in)
        pdf_text == IF up.present THEN extract_text_from_pdf(up) ELSE <<>>
        asking == up.present /\ Truthy(pdf_text)                     \* 132, 135
        ss1 == IF asking /\ clicked = "get_answer" /\ Truthy(q)      \* 140
               THEN GetAnswerHandler(ss0, pdf_text, q, service)
               ELSE ss0
        offered == asking /\ AnswerShown(ss1)                        \* 148
                   /\ SaveOffered(ss1["last_answer"])                \* 151
        ss2 == IF offered /\ clicked = "save" THEN SaveHandler(ss1) ELSE ss1
        listed == Truthy(ss2["saved_answers"])                       \* 162
        ss3 == IF listed /\ clicked = "clear" THEN ClearHandler(ss2) ELSE ss2
        exporting == listed /\ clicked = "export"                    \* 174
        x == ExportHandler(ss3["saved_answers"], files, io)
    IN  [ss |-> ss3,
         question |-> IF asking THEN q ELSE <<>>,
         rendered |-> (IF asking THEN {"question", "get_answer"} ELSE {})
                      \cup (IF offered THEN {"save"} ELSE {})
                      \cup (IF listed THEN {"clear", "export"} ELSE {})
                      \cup (IF exporting /\ x.shown THEN {"download"} ELSE {}),
         download |-> IF exporting THEN x.download ELSE NoPdf,
         files |-> IF exporting THEN x.files ELSE files,
         error |-> IF exporting THEN x.error ELSE "none"]

-----------------------------------------------------------------------------
(* The session: each user interaction re-runs the script *)

\* the documents a user uploads
Docs ==
    { Pdf(FALSE, <<PyStr(<<"a">>), PyNone, PyStr(<<" ", "b">>)>>),  \* text
      Pdf(FALSE, <<PyNone>>),                                \* a scanned page
      Pdf(FALSE, <<PyStr(<<" ">>), PyStr(<<"\n">>)>>),       \* whitespace only
      Pdf(TRUE, <<PyStr(<<"a">>)>>) }                        \* pypdf raises

\* the questions a user types
Questions == {<<>>, <<"What is X?">>}

\* what the service does with a request of the session
Outcomes ==
    { Raises, Blocked, Response(PyNone), Response(PyStr(<<>>)),
      Response(PyStr(<<" ">>)), Response(PyStr(<<" ", "X is Y.", "\n">>)),
      Response(PyStr(<<"Sorry. ">> \o CouldNotGetAnAnswer \o <<" in the text.">>)) }

ExportIO == {"ok", "mkstemp_fails", "output_fails", "open_fails", "download_fails"}

NoCall == [fn |-> "none"]

saved_answers == session_state["saved_answers"]

Init ==
    /\ uploaded_file = NoFile
    /\ question = <<>>
    /\ session_state = InitSessionState(<<>>)
    /\ rendered = {}
    /\ download = NoPdf
    /\ tmp_files = {}
    /\ error = "none"
    /\ call = NoCall

Rerun(up, q, clicked, service, io) ==
    LET r == Script(session_state, up, q, clicked, service, io, tmp_files)
    IN  /\ uploaded_file' = up
        /\ question' = r.question
        /\ session_state' = r.ss
        /\ rendered' = r.rendered
        /\ download' = r.download
        /\ tmp_files' = r.files
        /\ error' = r.error
        /\ UNCHANGED call

Quiet == Service(Raises, Raises)

\* the user puts a file in the uploader, or takes it out
Upload ==
    \E up \in Docs \cup {NoFile} :
        /\ up # uploaded_file
        /\ Rerun(up, question, "none", Quiet, "ok")

\* the user types a question
EditQuestion ==
    \E q \in Questions :
        /\ "question" \in rendered
        /\ q # question
        /\ Rerun(uploaded_file, q, "none", Quiet, "ok")

ClickGetAnswer ==
    \E o \in Outcomes :
        /\ "get_answer" \in rendered
        /\ Rerun(uploaded_file, question, "get_answer", Service(o, o), "ok")

ClickSave ==
    /\ "save" \in rendered
    /\ Len(saved_answers) < MaxSaved
    /\ Rerun(uploaded_file, question, "save", Quiet, "ok")

ClickClear ==
    /\ "clear" \in rendered
    /\ Rerun(uploaded_file, question, "clear", Quiet, "ok")

ClickExport ==
    \E io \in ExportIO :
        /\ "export" \in rendered
        /\ Cardinality(tmp_files) < MaxTmpFiles
        /\ Rerun(uploaded_file, question, "export", Quiet, io)

ClickDownload ==
    /\ "download" \in rendered
    /\ Rerun(uploaded_file, question, "none", Quiet, "ok")

Next ==
    \/ Upload
    \/ EditQuestion
    \/ ClickGetAnswer
    \/ ClickSave
    \/ ClickClear
    \/ ClickExport
    \/ ClickDownload

Spec == Init /\ [][Next]_vars

-----------------------------------------------------------------------------
(* Direct calls of ask_question_to_gemini, on every text, question and     *)
(* service behaviour within the bounds                                     *)

AskChars == {" ", "a"}
AskTexts == StrsUpTo(AskChars, MaxTextLen)
AskQuestions == {<<>>, <<"q">>}
AskOutcomes ==
    {Raises, Blocked, Response(PyNone)} \cup {Response(PyStr(t)) : t \in AskTexts}

NoAnswer == [ret |-> <<>>, requests |-> <<>>, raised |-> FALSE, errors |-> 0]

SessionIdle ==
    /\ uploaded_file = NoFile
    /\ question = <<>>
    /\ session_state = InitSessionState(<<>>)
    /\ rendered = {}
    /\ download = NoPdf
    /\ tmp_files = {}
    /\ error = "none"

InitAsk ==
    /\ SessionIdle
    /\ \E t \in AskTexts, q \in AskQuestions, o1 \in AskOutcomes, o2 \in AskOutcomes :
           call = [fn |-> "ask", done |-> FALSE, text |-> t, question |-> q,
                   service |-> Service(o1, o2), result |-> NoAnswer]

AskCall ==
    /\ call.fn = "ask"
    /\ ~call.done
    /\ call' = [call EXCEPT
                  !.done = TRUE,
                  !.result = ask_question_to_gemini(call.text, call.question,
                                                    call.service)]
    /\ UNCHANGED <<uploaded_file, question, session_state, rendered, download,
                   tmp_files, error>>

SpecAsk == InitAsk /\ [][AskCall]_vars

-----------------------------------------------------------------------------
(* Direct calls of export_answers_to_pdf, on every list of records within  *)
(* the bounds, records with missing keys included                          *)

FieldValues == {<<"What is X?">>, <<"X is Y.">>}
QARecords == UNION {[D -> FieldValues] : D \in SUBSET {"question", "answer"}}
AnswerLists == UNION {[1..n -> QARecords] : n \in 0..MaxAnswers}

NoExport == [path |-> 0, files |-> {}, pdf |-> NoPdf, raised |-> FALSE]

InitExport ==
    /\ SessionIdle
    /\ \E a \in AnswerLists, f \in {{}, {1}},
          io \in {"ok", "mkstemp_fails", "output_fails"} :
           call = [fn |-> "export", done |-> FALSE, answers |-> a, files |-> f,
                   io |-> io, result |-> NoExport]

ExportCall ==
    /\ call.fn = "export"
    /\ ~call.done
    /\ call' = [call EXCEPT
                  !.done = TRUE,
                  !.result = export_answers_to_pdf(call.answers, call.files, call.io)]
    /\ UNCHANGED <<uploaded_file, question, session_state, rendered, download,
                   tmp_files, error>>

SpecExport == InitExport /\ [][ExportCall]_vars

-----------------------------------------------------------------------------
(* Properties of the session (specification Spec) *)

Pending(ss) ==
    IF "last_answer" \in DOMAIN ss
    THEN <<[question |-> ss["last_question"], answer |-> ss["last_answer"]]>>
    ELSE <<>>

\* C1: in every reachable state of a session, no record of the saved-answers
\* ledger has the service-failure sentinel as its answer.
C1_NoFailureInLedger ==
    \A i \in 1..Len(saved_answers) : saved_answers[i]["answer"] # FailureMsg

\* a failed call is the pending answer, beside a ledger that holds records,
\* and the page offers Get Answer but not Save
C1_Witness ==
    /\ "last_answer" \in DOMAIN session_state
    /\ session_state["last_answer"] = FailureMsg
    /\ "get_answer" \in rendered
    /\ "save" \notin rendered
    /\ Len(saved_answers) >= 1

\* C5: once an Export interaction has finished, however it ended, no
\* temporary file made by export_answers_to_pdf is left on disk.
C5_NoTmpFileLeft == tmp_files = {}

\* C6: a Clear All click leaves the ledger empty whatever it held, and the
\* button is on the page whenever the ledger holds a record, whatever the
\* pending answer and the uploaded document are.
C6_ClearEmptiesLedger ==
    /\ [][ClickClear => saved_answers' = <<>>]_vars
    /\ [](Len(saved_answers) > 0 => "clear" \in rendered)

\* Clear All has run with a document uploaded and an answer pending: the
\* buttons drawn before the handler ran are still on the page, over an
\* empty ledger
C6_Witness ==
    /\ saved_answers = <<>>
    /\ "clear" \in rendered
    /\ uploaded_file.present
    /\ AnswerShown(session_state)

\* C8 as stated: the step that commits the pending pair leaves that pair no
\* longer pending, so that it cannot be committed again.
C8_CommittedPairNotPending ==
    [][Len(saved_answers') = Len(saved_answers) + 1
         => /\ Pending(session_state') # <<saved_answers'[Len(saved_answers')]>>
            /\ "save" \notin rendered']_vars

\* C8 as amended: the step that commits the pending pair appends a copy of
\* it and leaves the pending pair as it was, with Save this Answer still on
\* the page; only Get Answer changes the pending pair.
C8_CommitKeepsPending ==
    /\ [][Len(saved_answers') = Len(saved_answers) + 1
            => /\ Pending(session_state') = Pending(session_state)
               /\ Pending(session_state') = <<saved_answers'[Len(saved_answers')]>>
               /\ "save" \in rendered']_vars
    /\ [][Pending(session_state') # Pending(session_state) => ClickGetAnswer]_vars

\* the pending pair has been committed twice and is still pending
C8_Witness ==
    /\ Len(saved_answers) = 2
    /\ saved_answers[1] = saved_answers[2]
    /\ Pending(session_state) = <<saved_answers[2]>>
    /\ "save" \in rendered

\* C9: Save this Answer appends one record, the pending pair, at the end and
\* leaves the others in place; an upload, Get Answer, Export (and typing a
\* question, and a download) leave the ledger as it is; a step that removes
\* or changes a record is a Clear All.
C9_AppendOnlyBetweenClears ==
    [][/\ ClickSave =>
            saved_answers' = saved_answers \o Pending(session_state)
       /\ (Upload \/ EditQuestion \/ ClickGetAnswer \/ ClickExport \/ ClickDownload)
            => saved_answers' = saved_answers
       /\ (\/ Len(saved_answers') < Len(saved_answers)
           \/ SubSeq(saved_answers', 1, Len(saved_answers)) # saved_answers)
            => ClickClear /\ saved_answers' = <<>>]_vars

\* two different records have been saved one after the other
C9_Witness ==
    /\ Len(saved_answers) = 2
    /\ saved_answers[1] # saved_answers[2]

-----------------------------------------------------------------------------
(* Properties of ask_question_to_gemini (specification SpecAsk) *)

WhitespaceOnly(text) == \A i \in 1..Len(text) : text[i] \in Whitespace

\* C2: for a text that is empty or whitespace only, and any question, the
\* call returns the "PDF content is empty" sentinel and sends no request.
C2_BlankTextNoRequest ==
    (call.fn = "ask" /\ call.done /\ WhitespaceOnly(call.text))
        => /\ call.result.ret = EmptyPdfMsg
           /\ call.result.requests = <<>>

\* a call on a text of whitespace has returned
C2_Witness ==
    /\ call.fn = "ask" /\ call.done
    /\ call.text = <<" ", " ">>
    /\ call.question = <<"q">>

\* C3: for a text that is not blank the call sends exactly one request, the
\* prompt built from the text and the question; no exception leaves the call;
\* and when that request fails the failure sentinel is returned.
C3_OneRequestNoRetry ==
    (call.fn = "ask" /\ call.done /\ ~WhitespaceOnly(call.text))
        => /\ call.result.requests = <<Prompt(call.text, call.question)>>
           /\ ~call.result.raised
           /\ call.service.first.raises => call.result.ret = FailureMsg

\* a call whose request failed has returned, where a second request would
\* have been answered
C3_Witness ==
    /\ call.fn = "ask" /\ call.done
    /\ ~WhitespaceOnly(call.text)
    /\ call.service.first.raises
    /\ call.service.later = Response(PyStr(<<"a">>))

\* C10: whatever the text, the question and the service's outcome, the call
\* returns a non-empty str: the stripped, non-empty text of the response or
\* one of the three sentinels; a response whose text is empty or whitespace
\* only gives the "empty answer" sentinel.
C10_AnswerNeverEmpty ==
    (call.fn = "ask" /\ call.done)
        => LET first == call.service.first
               ret == call.result.ret
           IN  /\ ret # <<>>
               /\ \/ ret \in {EmptyPdfMsg, EmptyAnswerMsg, FailureMsg}
                  \/ /\ ~first.raises /\ ~first.textRaises /\ ~first.text.isNone
                     /\ ret = Strip(first.text.s)
               /\ (/\ ~WhitespaceOnly(call.text)
                   /\ ~first.raises /\ ~first.textRaises
                   /\ WhitespaceOnly(first.text.s))
                    => ret = EmptyAnswerMsg

-----------------------------------------------------------------------------
(* Properties of export_answers_to_pdf (specification SpecExport) *)

Complete(qa) == DOMAIN qa = {"question", "answer"}

\* the text of block n written out: "Q{n}: q", newline, "A{n}: a", newline
QALines(n, q, a) ==
    <<"Q", ToString(n), ": ">> \o q \o <<"\n", "A", ToString(n), ": ">> \o a \o <<"\n">>

\* what follows the title in the PDF written
BlocksOf(pdf) == SubSeq(pdf, 3, Len(pdf))

\* C4: for a ledger of N records the PDF written holds the title and then
\* exactly N blocks, block n being "Q{n}: question" and "A{n}: answer" of
\* the n-th record; the ledger [{What is X?, X is Y.}] gives "Q1: What is
\* X?" and "A1: X is Y.".
C4_NumberedBlocksInOrder ==
    (call.fn = "export" /\ call.done /\ ~call.result.raised)
        => LET pdf == call.result.pdf
               N == Len(call.answers)
           IN  /\ Len(pdf) >= 2
               /\ pdf[1] = [op |-> "cell", txt |-> <<"Saved Q&A from Notes to PDF">>]
               /\ pdf[2].op = "ln"
               /\ Len(BlocksOf(pdf)) = N
               /\ \A n \in 1..N :
                      Complete(call.answers[n]) =>
                          BlocksOf(pdf)[n] =
                              [op |-> "multi_cell",
                               txt |-> QALines(n, call.answers[n]["question"],
                                               call.answers[n]["answer"])]
               /\ (N = 1 /\ Complete(call.answers[1])
                   /\ call.answers[1]["question"] = <<"What is X?">>
                   /\ call.answers[1]["answer"] = <<"X is Y.">>)
                    => BlocksOf(pdf)[1].txt =
                         <<"Q", "1", ": ", "What is X?", "\n",
                           "A", "1", ": ", "X is Y.", "\n">>

\* two different complete records have been exported
C4_Witness ==
    /\ call.fn = "export" /\ call.done /\ ~call.result.raised
    /\ Len(call.answers) = 2
    /\ Complete(call.answers[1]) /\ Complete(call.answers[2])
    /\ call.answers[1] # call.answers[2]

\* C7: a record without "answer" is written with "N/A Answer", one without
\* "question" with "N/A Question", no exception leaves the call when the
\* file system works, and every record keeps the number of its place.
C7_PlaceholdersForMissingFields ==
    (call.fn = "export" /\ call.done /\ call.io = "ok")
        => /\ ~call.result.raised
           /\ Len(BlocksOf(call.result.pdf)) = Len(call.answers)
           /\ \A n \in 1..Len(call.answers) :
                  LET qa == call.answers[n]
                      q == IF "question" \in DOMAIN qa THEN qa["question"]
                           ELSE <<"N/A Question">>
                      a == IF "answer" \in DOMAIN qa THEN qa["answer"]
                           ELSE <<"N/A Answer">>
                  IN  ~(\A m \in 1..Len(call.answers) : Complete(call.answers[m]))
                        => BlocksOf(call.result.pdf)[n].txt = QALines(n, q, a)

\* a record without "answer" has been exported before a complete one
C7_Witness ==
    /\ call.fn = "export" /\ call.done /\ ~call.result.raised
    /\ Len(call.answers) = 2
    /\ DOMAIN call.answers[1] = {"question"}
    /\ Complete(call.answers[2])

====
